---- MODULE Spec2Model ----
(***************************************************************************)
(* Model of the weather application's two caching utilities:               *)
(*   - SearchCache (search-result cache, Map in insertion order, ttl,      *)
(*     maxSize), and                                                       *)
(*   - WeatherAPI.fetchWeatherData (response cache with CACHE_DURATION and *)
(*     the pendingRequests map used for request deduplication), together   *)
(*     with the error-handling wrapper and the hook that drives the store. *)
(* Time is counted in abstract ticks; the durations and the capacity are   *)
(* scaled down (ttl = 5 minutes and maxSize = 50 in the source).           *)
(***************************************************************************)
EXTENDS Integers, Sequences, FiniteSets, TLC

\* ------------------------------------------------------------- bounds ----
\* Last value of the clock (Date.now()) the model explores.
MaxTime == 2
\* SearchCache.maxSize, scaled down from 50.
maxSize == 3
\* SearchCache.ttl, scaled down from 5 * 60 * 1000 ms, in ticks.
ttl == 1
\* CACHE_DURATION of the weather response cache, in ticks.
CACHE_DURATION == 1
\* Number of fetchWeatherData calls a behaviour holds.
MaxReq == 2

\* ------------------------------------------------------------- values ----
\* Search queries; the empty string is a string like any other.
SKeys == {"", "a", "b", "c"}
\* City[] results.
SData == {"v1", "v2"}
\* What Map.keys().next().value is for an empty Map.
Undefined == "undefined"
\* What a lookup reports when it has nothing to return.
Absent == "absent"

\* Coordinates (lat, lon) the callers ask for.
Coords == {<<0, 0>>, <<1, 0>>}
\* Weather payloads the API can answer with.
WData == {"w1", "w2"}
\* Failures of the network call other than a cancellation.
Failures == {"NetworkError", "MalformedResponse"}
AbortError == "AbortError"
GenericError == "Failed to fetch weather data"
Null == "null"

VARIABLES
    now,              \* Date.now()
    scache,           \* SearchCache.cache: entries in the Map's insertion order
    wcache,           \* the weather response cache: cacheKey -> entry
    pendingRequests,  \* cacheKey -> the promise of the call in flight (0: none)
    network,          \* the network calls issued and not yet settled
    reqs,             \* every fetchWeatherData call made so far
    store,            \* weatherData, isLoading, error of the store
    hookCur,          \* the hook's current request (its AbortController)
    last              \* the operation just performed and what it returned

wvars == <<wcache, pendingRequests, network, reqs, store, hookCur>>
vars == <<now, scache, wcache, pendingRequests, network, reqs, store, hookCur, last>>

NoOp == [op |-> "none", key |-> "", value |-> Absent, hit |-> FALSE, call |-> FALSE]

\* --------------------------------------------------------- Map<K, V> -----
\* A Map is the sequence of its entries in insertion order.
MapKeys(m) == {m[i].key : i \in 1..Len(m)}

MapHas(m, k) == k \in MapKeys(m)

MapIndex(m, k) == CHOOSE i \in 1..Len(m) : m[i].key = k

MapGet(m, k) == m[MapIndex(m, k)]

\* Map.prototype.set: an existing key keeps its place, a new key goes last.
MapSet(m, e) ==
    IF MapHas(m, e.key)
    THEN [m EXCEPT ![MapIndex(m, e.key)] = e]
    ELSE Append(m, e)

MapDelete(m, k) == SelectSeq(m, LAMBDA e : e.key # k)

\* this.cache.keys().next().value
FirstKey(m) == IF Len(m) = 0 THEN Undefined ELSE m[1].key

\* JavaScript truthiness of a string | undefined.
Truthy(k) == k # Undefined /\ k # ""

\* -------------------------------------------------------- SearchCache ----
\* The eviction step of SearchCache.set.
Evict(m) ==
    IF Len(m) >= maxSize
    THEN IF Truthy(FirstKey(m)) THEN MapDelete(m, FirstKey(m)) ELSE m
    ELSE m

\* SearchCache.set(key, value) at time t.
SearchSet(m, k, v, t) ==
    MapSet(Evict(m), [key |-> k, data |-> v, timestamp |-> t])

\* SearchCache.get(key) at time t.
SearchGet(m, k, t) ==
    IF MapHas(m, k) /\ t - MapGet(m, k).timestamp < ttl
    THEN MapGet(m, k).data
    ELSE Absent

SCSet(k, v) ==
    /\ scache' = SearchSet(scache, k, v, now)
    /\ last' = [op |-> "set", key |-> k, value |-> v, hit |-> FALSE,
                call |-> FALSE]
    /\ UNCHANGED <<now, wvars>>

SCGet(k) ==
    /\ last' = [op |-> "get", key |-> k,
                value |-> SearchGet(scache, k, now),
                hit |-> SearchGet(scache, k, now) # Absent, call |-> FALSE]
    /\ UNCHANGED <<now, scache, wvars>>

Tick ==
    /\ now < MaxTime
    /\ now' = now + 1
    /\ last' = NoOp
    /\ UNCHANGED <<scache, wvars>>

\* --------------------------------------------------------- WeatherAPI ----
\* const cacheKey = `weather-${lat}-${lon}`
CacheKey(lat, lon) == <<"weather", lat, lon>>

WKeys == {CacheKey(c[1], c[2]) : c \in Coords}

\* What cache.get(cacheKey) is for a key the cache does not hold.
NoEntry == [data |-> Undefined, timestamp |-> 0]

\* CacheFresh with the boundary included: an entry exactly CACHE_DURATION old
\* still counts as fresh.
CacheFreshInclusive(e, t) == e # NoEntry /\ t - e.timestamp <= CACHE_DURATION

\* cached && Date.now() - cached.timestamp < CACHE_DURATION
CacheFresh(e, t) == e # NoEntry /\ t - e.timestamp < CACHE_DURATION

\* PendingHas that never finds the record of the call in flight.
PendingHasNever(p, k) == FALSE

\* PendingHas that takes a cleared record for a call in flight.
PendingHasAlways(p, k) == TRUE

\* pendingRequests.has(cacheKey)
PendingHas(p, k) == p[k] # 0

\* WrapError without the AbortError branch.
WrapErrorAlwaysGeneric(e) == GenericError

\* The catch block of the error-handling wrapper: what it throws for error e.
WrapError(e) == IF e = AbortError THEN e ELSE GenericError

\* The weather half of the state, as one value the operations transform.
WState ==
    [cache |-> wcache, pending |-> pendingRequests, net |-> network,
     reqs |-> reqs, store |-> store]

Install(S) ==
    /\ wcache' = S.cache
    /\ pendingRequests' = S.pending
    /\ network' = S.net
    /\ reqs' = S.reqs
    /\ store' = S.store

\* HookOnData that does not look at the request's abort signal.
HookOnDataUnguarded(st, req, id, d) ==
    [weatherData |-> d, isLoading |-> FALSE, error |-> Null, owner |-> id]

\* The hook after its awaited call returned data d for request id.
HookOnData(st, req, id, d) ==
    IF req.aborted
    THEN st
    ELSE [weatherData |-> d, isLoading |-> FALSE, error |-> Null, owner |-> id]

\* The hook after its awaited call threw e (already through the wrapper).
HookOnError(st, req, id, e) ==
    IF e = AbortError \/ req.aborted
    THEN st
    ELSE [st EXCEPT !.isLoading = FALSE, !.error = e, !.owner = id]

\* The requests awaiting promise p.
Waiters(rs, p) ==
    {q \in 1..Len(rs) : rs[q].promise = p /\ rs[q].status = "pending"}

\* What a caller of kind `kind` sees when the shared promise settles.
Seen(kind, status, raw) ==
    IF kind = "hook" /\ status = "rejected" THEN WrapError(raw) ELSE raw

\* Every awaiting caller continues with the promise's outcome.
SettleReqs(rs, p, status, raw) ==
    [q \in 1..Len(rs) |->
        IF q \in Waiters(rs, p)
        THEN [rs[q] EXCEPT !.status = status, !.raw = raw,
                           !.result = Seen(rs[q].kind, status, raw)]
        ELSE rs[q]]

\* The store after the awaiting hook calls q, q+1, ... have continued.
RECURSIVE SettleStore(_, _, _, _, _, _)
SettleStore(st, rs, p, status, raw, q) ==
    IF q > Len(rs)
    THEN st
    ELSE LET next ==
                 IF q \in Waiters(rs, p) /\ rs[q].kind = "hook"
                 THEN IF status = "resolved"
                      THEN HookOnData(st, rs[q], q, raw)
                      ELSE HookOnError(st, rs[q], q, Seen("hook", status, raw))
                 ELSE st
         IN  SettleStore(next, rs, p, status, raw, q + 1)

\* The network call p settles: the in-flight record is dropped, a successful
\* answer is cached, and the callers sharing the promise continue.
Settle(S, p, status, raw, t) ==
    LET k == S.reqs[p].key
    IN  [cache   |-> IF status = "resolved"
                     THEN [S.cache EXCEPT ![k] = [data |-> raw, timestamp |-> t]]
                     ELSE S.cache,
         pending |-> [S.pending EXCEPT ![k] = 0],
         net     |-> S.net \ {p},
         reqs    |-> SettleReqs(S.reqs, p, status, raw),
         store   |-> SettleStore(S.store, S.reqs, p, status, raw, 1)]

\* controller.abort() of request r: the call issued with r's signal, if it
\* is still in flight, rejects with AbortError.
Abort(S, r, t) ==
    LET S1 == [S EXCEPT !.reqs[r].aborted = TRUE]
    IN  IF r \in S.net THEN Settle(S1, r, "rejected", AbortError, t) ELSE S1

NewReq(kind, k, p, status, raw) ==
    [kind |-> kind, key |-> k, aborted |-> FALSE, promise |-> p,
     status |-> status, raw |-> raw, result |-> raw]

\* WeatherAPI.fetchWeatherData(lat, lon, signal) called at time t by a caller
\* of kind `kind`; the call becomes request Len(S.reqs) + 1.
FetchWeatherData(S, kind, k, t) ==
    LET id == Len(S.reqs) + 1
    IN  IF CacheFresh(S.cache[k], t)
        THEN [S EXCEPT !.reqs = Append(@, NewReq(kind, k, 0, "resolved",
                                                 S.cache[k].data))]
        ELSE IF PendingHas(S.pending, k)
        THEN [S EXCEPT !.reqs = Append(@, NewReq(kind, k, S.pending[k],
                                                 "pending", Absent))]
        ELSE [S EXCEPT !.reqs = Append(@, NewReq(kind, k, id, "pending", Absent)),
                       !.pending[k] = id,
                       !.net = @ \cup {id}]

FetchLast(S, k) ==
    LET r == S.reqs[Len(S.reqs)]
    IN  [op |-> "fetch", key |-> k,
         value |-> IF r.status = "resolved" THEN r.raw ELSE Absent,
         hit |-> r.status = "resolved",
         call |-> S.net \ network # {}]

\* The hook fetches for coordinates c: it cancels its previous request, shows
\* the loading state and awaits the wrapped API call.
HookRequest(c) ==
    /\ Len(reqs) < MaxReq
    /\ LET k  == CacheKey(c[1], c[2])
           id == Len(reqs) + 1
           S1 == IF hookCur # 0 /\ ~reqs[hookCur].aborted
                 THEN Abort(WState, hookCur, now)
                 ELSE WState
           S2 == [S1 EXCEPT !.store = [@ EXCEPT !.isLoading = TRUE,
                                                !.error = Null,
                                                !.owner = id]]
           S3 == FetchWeatherData(S2, "hook", k, now)
           S4 == IF S3.reqs[id].status = "resolved"
                 THEN [S3 EXCEPT !.store =
                          HookOnData(@, S3.reqs[id], id, S3.reqs[id].raw)]
                 ELSE S3
       IN  /\ Install(S4)
           /\ hookCur' = id
           /\ last' = FetchLast(S4, k)
    /\ UNCHANGED <<now, scache>>

\* The component unmounts: its cleanup aborts the current request.
HookUnmount ==
    /\ hookCur # 0
    /\ ~reqs[hookCur].aborted
    /\ Install(Abort(WState, hookCur, now))
    /\ last' = [op |-> "abort", key |-> reqs[hookCur].key, value |-> Absent,
                hit |-> FALSE, call |-> FALSE]
    /\ UNCHANGED <<now, scache, hookCur>>

\* Another caller awaits weatherAPI.fetchWeatherData(lat, lon, signal).
DirectFetch(c) ==
    /\ Len(reqs) < MaxReq
    /\ LET k == CacheKey(c[1], c[2])
           S == FetchWeatherData(WState, "direct", k, now)
       IN  /\ Install(S)
           /\ last' = FetchLast(S, k)
    /\ UNCHANGED <<now, scache, hookCur>>

\* That caller aborts the signal it passed.
DirectAbort(r) ==
    /\ reqs[r].kind = "direct"
    /\ ~reqs[r].aborted
    /\ reqs[r].status = "pending"
    /\ Install(Abort(WState, r, now))
    /\ last' = [op |-> "abort", key |-> reqs[r].key, value |-> Absent,
                hit |-> FALSE, call |-> FALSE]
    /\ UNCHANGED <<now, scache, hookCur>>

\* The network call p is answered with payload d.
Respond(p, d) ==
    /\ p \in network
    /\ Install(Settle(WState, p, "resolved", d, now))
    /\ last' = [op |-> "respond", key |-> reqs[p].key, value |-> d,
                hit |-> FALSE, call |-> FALSE]
    /\ UNCHANGED <<now, scache, hookCur>>

\* The network call p fails, or its answer is malformed.
Fail(p, e) ==
    /\ p \in network
    /\ Install(Settle(WState, p, "rejected", e, now))
    /\ last' = [op |-> "fail", key |-> reqs[p].key, value |-> e,
                hit |-> FALSE, call |-> FALSE]
    /\ UNCHANGED <<now, scache, hookCur>>

\* ------------------------------------------------------ specifications ---
Init ==
    /\ now = 0
    /\ scache = <<>>
    /\ wcache = [k \in WKeys |-> NoEntry]
    /\ pendingRequests = [k \in WKeys |-> 0]
    /\ network = {}
    /\ reqs = <<>>
    /\ store = [weatherData |-> Null, isLoading |-> FALSE, error |-> Null,
                owner |-> 0]
    /\ hookCur = 0
    /\ last = NoOp

SearchNext ==
    \/ \E k \in SKeys, v \in SData : SCSet(k, v)
    \/ \E k \in SKeys : SCGet(k)
    \/ Tick

\* The search cache on its own.
SearchSpec == Init /\ [][SearchNext]_vars

Next ==
    \/ \E c \in Coords : HookRequest(c)
    \/ HookUnmount
    \/ \E c \in Coords : DirectFetch(c)
    \/ \E r \in 1..Len(reqs) : DirectAbort(r)
    \/ \E p \in network, d \in WData : Respond(p, d)
    \/ \E p \in network, e \in Failures : Fail(p, e)
    \/ Tick

\* The weather API, its callers and the store.
Spec == Init /\ [][Next]_vars

\* Both caches under one clock.  They share no state but the clock, so a
\* behaviour that uses one of them at a time reaches every state either cache
\* can be in at a lookup.
CachesNext ==
    \/ reqs = <<>> /\ SearchNext
    \/ scache = <<>> /\ Next

CachesSpec == Init /\ [][CachesNext]_vars

\* ---------------------------------------------------------------- claims --
\* The requests made so far.
ReqIds == 1..Len(reqs)

\* A failure of a call (its callers go from pending to rejected) leaves the
\* response cache as it was.
FailureCachesNothing ==
    (\E q \in ReqIds : reqs[q].status = "pending" /\ reqs'[q].status = "rejected")
        => wcache' = wcache

\* C1: in both caches a lookup returns the stored value exactly when an entry
\* for the key is present and its age, now - timestamp, is strictly below the
\* TTL; otherwise it reports absent; and a fresh hit of fetchWeatherData
\* issues no network call.
C1_LookupReturnsFreshOnly ==
    /\ last.op = "get" =>
          /\ last.hit <=> /\ MapHas(scache, last.key)
                          /\ now - MapGet(scache, last.key).timestamp < ttl
          /\ last.hit => last.value = MapGet(scache, last.key).data
          /\ ~last.hit => last.value = Absent
    /\ last.op = "fetch" =>
          /\ last.hit <=> /\ wcache[last.key] # NoEntry
                          /\ now - wcache[last.key].timestamp < CACHE_DURATION
          /\ last.hit => last.value = wcache[last.key].data /\ ~last.call
          /\ ~last.hit => last.value = Absent

\* C1 witness: fetchWeatherData looked up a key whose entry is present but
\* exactly CACHE_DURATION old, and reported a miss.
C1_ExpiredEntryMissed ==
    /\ last.op = "fetch"
    /\ ~last.hit
    /\ wcache[last.key] # NoEntry
    /\ now - wcache[last.key].timestamp = CACHE_DURATION

\* C2: set(key, value) stores value under key with the current time as its
\* timestamp, and when the cache was at capacity before the store, exactly
\* the oldest-inserted entry (the first of the Map) is removed and no other.
C2_SetEvictsExactlyOldest ==
    [][last'.op = "set" =>
          /\ MapHas(scache', last'.key)
          /\ MapGet(scache', last'.key) =
                [key |-> last'.key, data |-> last'.value, timestamp |-> now]
          /\ Len(scache) >= maxSize =>
                MapKeys(scache') =
                    (MapKeys(scache) \ {scache[1].key}) \cup {last'.key}
          /\ \A i \in 1..Len(scache) :
                (scache[i].key # last'.key /\ MapHas(scache', scache[i].key))
                    => MapGet(scache', scache[i].key) = scache[i]]_vars

\* C3: for every key at most one network call is in flight; every caller
\* still waiting waits on the call in flight for its key; and a call made
\* while one is in flight joins it without a second network call.
C3_OneCallInFlightPerKey ==
    /\ \A k \in WKeys : Cardinality({p \in network : reqs[p].key = k}) <= 1
    /\ \A q \in ReqIds :
          reqs[q].status = "pending" =>
              /\ reqs[q].promise \in network
              /\ reqs[reqs[q].promise].key = reqs[q].key
              /\ pendingRequests[reqs[q].key] = reqs[q].promise
    /\ (last.op = "fetch" /\ ~last.hit /\ reqs[Len(reqs)].promise # Len(reqs))
          => ~last.call

\* C3 witness: two callers wait on one call in flight.
C3_TwoCallersShareOneCall ==
    \E q1, q2 \in ReqIds :
        /\ q1 # q2
        /\ reqs[q1].status = "pending"
        /\ reqs[q2].status = "pending"
        /\ reqs[q1].promise = reqs[q2].promise
        /\ Cardinality(network) = 1

\* C4: through the wrapper a cancellation stays an AbortError and every other
\* failure becomes the one generic error; the store's error is never an
\* AbortError; a failure of the hook's live request puts the store in the
\* error state with loading off; a request that ended with AbortError wrote
\* nothing after it was issued; and no failure stores a value in the cache.
C4_ErrorOutcomes ==
    /\ [](/\ \A q \in ReqIds :
               (reqs[q].kind = "hook" /\ reqs[q].status = "rejected") =>
                   /\ reqs[q].raw = AbortError => reqs[q].result = AbortError
                   /\ reqs[q].raw # AbortError => reqs[q].result = GenericError
          /\ store.error \in {Null, GenericError}
          /\ (/\ hookCur # 0
              /\ reqs[hookCur].status = "rejected"
              /\ reqs[hookCur].raw # AbortError
              /\ ~reqs[hookCur].aborted)
                 => store.error = GenericError /\ ~store.isLoading
          /\ (store.owner # 0 /\ reqs[store.owner].raw = AbortError)
                 => store.isLoading /\ store.error = Null)
    /\ [][FailureCachesNothing]_vars

\* C4 witness: the hook's live request failed for a reason other than a
\* cancellation and the store shows the generic error.
C4_FailureShown ==
    /\ hookCur # 0
    /\ reqs[hookCur].status = "rejected"
    /\ reqs[hookCur].raw \in Failures
    /\ store.error = GenericError
    /\ wcache[reqs[hookCur].key] = NoEntry

C6_EvictsLeastRecentlyUsed ==
    [][last'.op = "set" =>
          \A i, j \in 1..Len(scache) :
              (/\ ~MapHas(scache', scache[i].key)
               /\ MapHas(scache', scache[j].key)
               /\ scache[j].key # last'.key)
                  => scache[i].timestamp <= scache[j].timestamp]_vars

\* C7: a settled call leaves no in-flight record, a failed one leaves nothing
\* in the cache, and a fetch that misses the cache is never handed a settled
\* result: it waits on a call that is in flight.
C7_SettledCallIsCleared ==
    /\ [](/\ \A k \in WKeys :
               pendingRequests[k] # 0 =>
                   /\ pendingRequests[k] \in network
                   /\ reqs[pendingRequests[k]].key = k
          /\ \A q \in ReqIds :
               (reqs[q].status # "pending" /\ reqs[q].promise # 0) =>
                   /\ reqs[q].promise \notin network
                   /\ pendingRequests[reqs[q].key] # reqs[q].promise
          /\ (last.op = "fetch" /\ ~last.hit) =>
               /\ reqs[Len(reqs)].status = "pending"
               /\ reqs[Len(reqs)].promise \in network)
    /\ [][FailureCachesNothing]_vars

\* C7 witness: a fetch for a key failed, and the next fetch for the same key
\* issued a new network call.
C7_RetryIssuesNewCall ==
    \E q \in ReqIds :
        /\ q < Len(reqs)
        /\ reqs[q].status = "rejected"
        /\ reqs[q].key = reqs[Len(reqs)].key
        /\ last.op = "fetch"
        /\ last.call
        /\ reqs[Len(reqs)].promise = Len(reqs)

\* C8: a caller whose own signal was never aborted never receives an
\* AbortError.
C8_UnabortedCallerNeverAborted ==
    \A q \in ReqIds : ~reqs[q].aborted => reqs[q].raw # AbortError

\* C9: the search cache never holds more than maxSize entries.
C9_SizeBound == Len(scache) <= maxSize

\* C10: a set of a key already present leaves every other entry present and
\* unchanged.
C10_OverwriteKeepsOthers ==
    [][(last'.op = "set" /\ MapHas(scache, last'.key)) =>
          \A i \in 1..Len(scache) :
              scache[i].key # last'.key =>
                  /\ MapHas(scache', scache[i].key)
                  /\ MapGet(scache', scache[i].key) = scache[i]]_vars

====
